---- MODULE Spec2Model ----
(***************************************************************************)
(* Model of pycolleff/process_wakes.py: the wake loader (load_wake), the   *)
(* impedance transform (calc_impedance) and the loss / kick factor engine  *)
(* (calc_loss_factor, calc_kick_factor), all acting on one GlobData record *)
(* (ringpar, simpar, results).                                             *)
(*                                                                         *)
(* Numbers.  Lengths are fixed-point integers, 1 = 1e-3 of the number the  *)
(* code holds (so a stored position of 20 is 0.020 m).  Times are in ns,   *)
(* frequencies in GHz and angular frequencies in rad/ns, which makes the   *)
(* speed of light 299.792458 mm/ns (rounded to 300) and the 20e9 rad/s     *)
(* limit of the Z/n range 20 rad/ns.  Quotients that are not integers are  *)
(* kept as normalised rationals [n, d] with d > 0.  pi is 22/7.            *)
(* Values that come out of the FFT or of a trapezoidal integral are kept   *)
(* symbolic: a record that names the bin, the part taken and the sign.     *)
(***************************************************************************)
EXTENDS Integers, Sequences, FiniteSets, TLC

\* ---------------------------------------------------------------- bounds
MaxRows == 4          \* data rows of a wake file: 1..MaxRows
MaxMode == 2          \* simpar.m ranges over 0..MaxMode
MaxCutoff == 2        \* simpar.cutoff ranges over 1..MaxCutoff

\* ----------------------------------------------------- program constants
c == 300              \* speed of light, mm/ns
nsigmas == 5          \* ACE3P displacement in bunch lengths
NumScan == 100        \* points of the bunch-length scan
ZoNLimit == 20        \* 20e9 rad/s, in rad/ns
CSTScale == 1000      \* mm -> m
ECHOScale == 100      \* cm -> m
circumf == 518396     \* ring circumference, mm
TwoPiNum == 44        \* 2*pi = 44/7
TwoPiDen == 7

\* ------------------------------------------------------------- rationals
Abs(x) == IF x < 0 THEN -x ELSE x

RECURSIVE GCD(_, _)
GCD(a, b) == IF b = 0 THEN a ELSE GCD(b, a % b)

\* the rational n/d (d # 0) in lowest terms with a positive denominator
Rat(n, d) ==
  LET g == GCD(Abs(n), Abs(d))
      sg == IF d < 0 THEN -1 ELSE 1
  IN  [n |-> sg * (n \div g), d |-> sg * (d \div g)]

RatMul(a, b) ==
  LET g1 == GCD(Abs(a.n), b.d)
      g2 == GCD(Abs(b.n), a.d)
      h1 == IF g1 = 0 THEN 1 ELSE g1
      h2 == IF g2 = 0 THEN 1 ELSE g2
  IN  Rat((a.n \div h1) * (b.n \div h2), (a.d \div h2) * (b.d \div h1))

RatLess(a, b) == a.n * b.d < b.n * a.d
RatLeq(a, b) == a.n * b.d <= b.n * a.d
RatAbs(a) == [n |-> Abs(a.n), d |-> a.d]

\* ------------------------------------------------------------- sequences
Neg(sq) == [i \in 1..Len(sq) |-> -sq[i]]
Col(rows, j) == [i \in 1..Len(rows) |-> rows[i][j]]
\* sq[mask], mask an array of booleans: the elements of sq at the indices
\* where mask is true, in order
Masked(sq, mask) ==
  LET F[i \in 0..Len(sq)] ==
        IF i = 0 THEN <<>>
        ELSE IF mask[i] THEN Append(F[i-1], sq[i]) ELSE F[i-1]
  IN  F[Len(sq)]

\* ----------------------------------------------------------------- paths
\* a path is a sequence of pieces; a directory is a sequence of characters
SEP == "/"
StartsWith(s, prefix) ==
  /\ Len(prefix) <= Len(s)
  /\ SubSeq(s, 1, Len(prefix)) = prefix

Join(dir, pieces) == dir \o <<SEP>> \o pieces

Upper(ax) == IF ax = "x" THEN "X" ELSE IF ax = "y" THEN "Y" ELSE ax

DirA == <<"/", "a">>
DirAB == <<"/", "a", "/", "b">>
\* (wakepath, targetdir) pairs: equal, target a prefix of wake, wake a prefix
\* of target (what prepare_struct_for_load builds with newdir)
DirPairs == { <<DirA, DirA>>, <<DirAB, DirA>>, <<DirA, DirAB>> }

Sources == {"ACE3P", "GdfidL", "CST", "ECHO", "Other"}
\* dsrc.startswith(tag) on the tags of Sources, none a prefix of another
DsrcStartsWith(dsrc, tag) == dsrc = tag

\* ----------------------------------------------------------------- state
VARIABLES
  ringpar,    \* GlobData.ringpar
  simpar,     \* GlobData.simpar
  results,    \* GlobData.results
  wakefile,   \* the data written by the simulation code: rows, first position, missing names
  reads,      \* files read by the last load_wake, in order
  copies,     \* files copied into simpar.targetdir by the last load_wake, in order
  err,        \* how the last call ended: "none" or the exception raised
  lastOp      \* the last call made

vars == <<ringpar, simpar, results, wakefile, reads, copies, err, lastOp>>

\* ------------------------------------------------------------ input data
FileStep == 30 * CSTScale
Starts == {-FileStep}
\* (simpar.bunlen, ringpar.sigmamax) pairs
ScanPairs == { <<0, 20>>, <<10, 20>>, <<30, 20>>, <<30, 30>> }
WakeVal(i) == 2 * i - 3
\* the coordinates (fx, fy) in the third header line of a GdfidL file
HeaderCoord == <<2, 4>>
\* the parameters of the scenarios that vary the directories
DefaultScan == <<10, 20>>
\* the directories of the scenarios that vary the numerical parameters
DefaultDirs == <<DirA, DirAB>>

Last(path) == path[Len(path)]
Member(x, sq) == \E i \in 1..Len(sq) : sq[i] = x
\* every probe file holds the same positions and its own multiple of the wake
Weight(path) ==
  (IF Last(path) = "_AT_XY.0002" THEN 3 ELSE 1) * (IF Member("dmi", path) THEN 5 ELSE 1)

FileRows(path) ==
  [i \in 1..wakefile.nrows |->
     <<wakefile.start + (i - 1) * FileStep, WakeVal(i) * Weight(path)>>]

\* names (relative to the wake directory) that may be absent
MissingSome == { <<"wake.dat">>,
                 <<"Results-W", "X", "_AT_XY.0002">>,
                 <<"Results-W", "Y", "_AT_XY.0002">> }

Exists(path) ==
  \A nm \in wakefile.missing :
     ~ (Len(nm) <= Len(path) /\ SubSeq(path, Len(path) - Len(nm) + 1, Len(path)) = nm)

\* ------------------------------------------------------------ the records
Ringpar ==
  [ circumf  |-> circumf,
    omega0   |-> RatMul(Rat(TwoPiNum, TwoPiDen), Rat(c, circumf)),
    sigma    |-> 2,
    sigmamax |-> 15,
    Iavg     |-> 500,
    h        |-> 864 ]

Simpar ==
  [ wakepath   |-> <<>>,
    targetdir  |-> <<>>,
    datasource |-> "",
    m          |-> 0,
    sym        |-> 0,
    whichaxis  |-> "",
    bunlen     |-> 0,
    cutoff     |-> 2 ]

Results ==
  [ s |-> <<>>, W |-> <<>>, freq |-> <<>>, naxis |-> <<>>,
    ReZlong |-> <<>>, ImZlong |-> <<>>, ImZoN |-> <<>>,
    ReZt |-> <<>>, ImZt |-> <<>>,
    klossW |-> <<>>, klossZ |-> <<>>, kickW |-> <<>>, kickZ |-> <<>>,
    sigmak |-> <<>>, Ploss |-> <<>>, Plossvec |-> <<>> ]

\* the record built by prepare_struct_for_load (sym = 1, whichaxis = "y") and
\* the fields the caller sets afterwards: the symmetry flag, the axis and the
\* cutoff for the sources whose code reads them, and the bunch lengths; the
\* directories and the numerical parameters are varied one at a time
Init ==
  /\ \E dp \in DirPairs, code \in Sources, m \in 0..MaxMode,
        sym \in {0, 1}, ax \in {"x", "y"}, sc \in ScanPairs, cut \in 1..MaxCutoff,
        n \in 1..MaxRows, st \in Starts, ms \in {{}, MissingSome} :
        /\ code \notin {"GdfidL", "ECHO"} => sym = 1 /\ ms = {}
        /\ code # "GdfidL" => ax = "y"
        /\ code \notin {"CST", "ECHO"} => cut = Simpar.cutoff
        /\ dp = DefaultDirs \/ (sc = DefaultScan /\ cut = Simpar.cutoff)
        /\ simpar = [Simpar EXCEPT !.wakepath = dp[1], !.targetdir = dp[2],
                                   !.datasource = code, !.m = m, !.sym = sym,
                                   !.whichaxis = ax, !.bunlen = sc[1], !.cutoff = cut]
        /\ ringpar = [Ringpar EXCEPT !.sigmamax = sc[2]]
        /\ wakefile = [nrows |-> n, start |-> st, missing |-> ms]
  /\ results = Results
  /\ reads = <<>>
  /\ copies = <<>>
  /\ err = "none"
  /\ lastOp = "init"

\* -------------------------------------------------------------- load_wake
Unbound == <<>>       \* a local name no branch has assigned

\* cpfile (lines 101-102)
CpFile(sp) == ~ StartsWith(sp.wakepath, sp.targetdir)

WName(ax, idx) == <<"Results-W", Upper(ax), idx>>

\* the path names set by lines 105-140
PathNames(sp) ==
  LET dsrc == sp.datasource
      m == sp.m
      ax == sp.whichaxis
      wdir == sp.wakepath
      none == [wakepath |-> Unbound, wakepath1 |-> Unbound, wakepath2 |-> Unbound,
               wakepath3 |-> Unbound, wakepath4 |-> Unbound, shiftpath |-> Unbound]
  IN  IF DsrcStartsWith(dsrc, "ACE3P")
        THEN [none EXCEPT !.wakepath = Join(wdir, <<"wakefield.out">>)]
      ELSE IF DsrcStartsWith(dsrc, "GdfidL")
        THEN IF m = 0
               THEN [none EXCEPT !.wakepath = Join(wdir, <<"Results-Wq_AT_XY.0001">>)]
             ELSE IF m = 1
               THEN IF sp.sym # 0
                      THEN [none EXCEPT
                              !.shiftpath = Join(wdir, <<"Results-Wq_AT_XY.0001">>),
                              !.wakepath1 = Join(wdir, WName(ax, "_AT_XY.0001")),
                              !.wakepath2 = Join(wdir, WName(ax, "_AT_XY.0002"))]
                      ELSE [none EXCEPT
                              !.shiftpath = Join(wdir, <<"dxdpl", SEP, "Results-Wq_AT_XY.0001">>),
                              !.wakepath1 = Join(wdir, <<"d", ax, "dpl", SEP>> \o WName(ax, "_AT_XY.0001")),
                              !.wakepath2 = Join(wdir, <<"d", ax, "dpl", SEP>> \o WName(ax, "_AT_XY.0002")),
                              !.wakepath3 = Join(wdir, <<"d", ax, "dmi", SEP>> \o WName(ax, "_AT_XY.0001")),
                              !.wakepath4 = Join(wdir, <<"d", ax, "dmi", SEP>> \o WName(ax, "_AT_XY.0002"))]
             ELSE IF m = 2
               THEN IF sp.sym = 0
                      THEN [none EXCEPT
                              !.wakepath1 = Join(wdir, WName(ax, "_AT_XY.0001")),
                              !.wakepath2 = Join(wdir, WName(ax, "_AT_XY.0002"))]
                      ELSE [none EXCEPT
                              !.wakepath1 = Join(wdir, WName(ax, "_AT_XY.0001"))]
             ELSE none
      ELSE IF DsrcStartsWith(dsrc, "CST")
        THEN [none EXCEPT !.wakepath = Join(wdir, <<"wake.txt">>)]
      ELSE IF DsrcStartsWith(dsrc, "ECHO")
        THEN IF m = 0
               THEN [none EXCEPT !.wakepath = Join(wdir, <<"wake.dat">>)]
             ELSE IF m > 0 /\ sp.sym # 0
               THEN [none EXCEPT !.wakepath = Join(wdir, <<"wakeT.dat">>)]
             ELSE none
      ELSE none

\* one step of the reading part (lines 143-217): a use of a local name, a
\* file read, a copy, an index into the loaded table, or a raise
Use(p) == [op |-> "use", path |-> p]
LoadTxt(p) == [op |-> "loadtxt", path |-> p]
Open(p) == [op |-> "open", path |-> p]
Copy(p) == [op |-> "copy", path |-> p]
Index2D(p) == [op |-> "index", path |-> p]
Raise(e) == [op |-> "raise", e |-> e]

CopyIf(cp, p) == IF cp THEN <<Copy(p)>> ELSE <<>>

\* the steps load_wake takes, in program order, up to the assignment of
\* results (an earlier failing step ends the call)
ReadSteps(sp) ==
  LET pn == PathNames(sp)
      cp == CpFile(sp)
      m == sp.m
  IN  IF ~ DsrcStartsWith(sp.datasource, "GdfidL")
        THEN <<Use(pn.wakepath), LoadTxt(pn.wakepath)>> \o CopyIf(cp, pn.wakepath)
             \o <<Index2D(pn.wakepath)>>
      ELSE IF m = 0
        THEN <<Raise("UnboundLocalError")>>           \* loadres (line 153)
      ELSE IF m = 1
        THEN <<LoadTxt(pn.wakepath1), LoadTxt(pn.wakepath2)>>
             \o CopyIf(cp, pn.wakepath1) \o CopyIf(cp, pn.wakepath2)
             \o <<Index2D(pn.wakepath1), Index2D(pn.wakepath2)>>
             \o (IF sp.sym = 0
                   THEN <<LoadTxt(pn.wakepath3), LoadTxt(pn.wakepath4)>>
                        \o CopyIf(cp, pn.wakepath3) \o CopyIf(cp, pn.wakepath4)
                        \o <<Index2D(pn.wakepath3), Index2D(pn.wakepath4)>>
                   ELSE <<>>)
             \o <<Open(pn.shiftpath)>> \o CopyIf(cp, pn.shiftpath)
             \o <<Raise("NameError")>>                 \* textscan (line 180)
      ELSE IF m = 2
        THEN <<LoadTxt(pn.wakepath1)>> \o CopyIf(cp, pn.wakepath1)
             \o <<Index2D(pn.wakepath1)>>
             \* ~sym is -1 or -2, never false: the branch is always taken
             \o <<Use(pn.wakepath2), LoadTxt(pn.wakepath2)>> \o CopyIf(cp, pn.wakepath2)
             \o <<Index2D(pn.wakepath2)>>
             \o <<Open(pn.wakepath1)>> \o CopyIf(cp, pn.wakepath1)
             \o <<Raise("NameError")>>                 \* textscan (lines 210, 213)
      ELSE <<>>

\* the exception a step raises, "none" when it succeeds
StepErr(st) ==
  IF st.op = "use" THEN (IF st.path = Unbound THEN "UnboundLocalError" ELSE "none")
  ELSE IF st.op \in {"loadtxt", "open"} THEN (IF Exists(st.path) THEN "none" ELSE "IOError")
  ELSE IF st.op = "index" THEN (IF Len(FileRows(st.path)) < 2 THEN "IndexError" ELSE "none")
  ELSE IF st.op = "raise" THEN st.e
  ELSE "none"

\* run the steps in order; stop at the first one that raises
RunSteps(steps) ==
  LET F[i \in 0..Len(steps)] ==
        IF i = 0 THEN [err |-> "none", reads |-> <<>>, copies |-> <<>>]
        ELSE LET prev == F[i-1]
                 st == steps[i]
                 e == StepErr(st)
             IN  IF prev.err # "none" THEN prev
                 ELSE IF e # "none" THEN [prev EXCEPT !.err = e]
                 ELSE IF st.op \in {"loadtxt", "open"}
                   THEN [prev EXCEPT !.reads = Append(@, st.path)]
                 ELSE IF st.op = "copy"
                   THEN [prev EXCEPT !.copies = Append(@, st.path)]
                 ELSE prev
  IN  F[Len(steps)]

CSTWake_KeepsSign(m, wake) == wake

\* the CST sign rule (lines 225-226)
CSTWake(m, wake) == IF m > 0 THEN Neg(wake) ELSE wake

\* spos, wake and the s-axis adjustment (lines 147-150 and 219-233) for the
\* sources that are not GdfidL, once the table is loaded
Adjusted(sp) ==
  LET loadres == FileRows(PathNames(sp).wakepath)
      spos == Col(loadres, 1)
      wake == IF sp.m = 0 THEN Neg(Col(loadres, 2)) ELSE Col(loadres, 2)
  IN  IF DsrcStartsWith(sp.datasource, "ACE3P")
        THEN IF "sigma" \in DOMAIN sp
               THEN [err |-> "none", W |-> wake,
                     s |-> [i \in 1..Len(spos) |-> spos[i] - nsigmas * sp["sigma"]]]
               ELSE [err |-> "AttributeError", W |-> <<>>, s |-> <<>>]
      ELSE IF DsrcStartsWith(sp.datasource, "CST")
        THEN [err |-> "none",
              W |-> CSTWake(sp.m, wake),
              s |-> [i \in 1..Len(spos) |-> spos[i] \div CSTScale]]
      ELSE IF DsrcStartsWith(sp.datasource, "ECHO")
        THEN [err |-> "none", W |-> wake,
              s |-> [i \in 1..Len(spos) |-> spos[i] \div ECHOScale]]
      ELSE [err |-> "none", W |-> wake, s |-> spos]

\* wabs of the GdfidL dipole branch (lines 162-172): the average of the two
\* probe files, or half the difference of the two pair averages
Wabs(sp) ==
  LET pn == PathNames(sp)
      l1 == Col(FileRows(pn.wakepath1), 2)
      l2 == Col(FileRows(pn.wakepath2), 2)
      l3 == Col(FileRows(pn.wakepath3), 2)
      l4 == Col(FileRows(pn.wakepath4), 2)
      wabs == [i \in 1..Len(l1) |-> (l1[i] + l2[i]) \div 2]
      wabs2 == [i \in 1..Len(l3) |-> (l3[i] + l4[i]) \div 2]
  IN  IF sp.sym = 0
        THEN [i \in 1..Len(wabs) |-> (wabs[i] - wabs2[i]) \div 2]
        ELSE wabs

\* the whole of load_wake: how it ends, what it read and copied, and the
\* arrays it assigns when it returns
LoadWakeResult(sp) ==
  LET io == RunSteps(ReadSteps(sp))
      fail(e) == [err |-> e, reads |-> io.reads, copies |-> io.copies,
                  W |-> <<>>, s |-> <<>>]
  IN  IF io.err # "none" THEN fail(io.err)
      ELSE IF DsrcStartsWith(sp.datasource, "GdfidL")
        THEN fail("UnboundLocalError")                 \* wake (line 232)
      ELSE LET a == Adjusted(sp)
           IN  IF a.err # "none" THEN fail(a.err)
               ELSE [err |-> "none", reads |-> io.reads, copies |-> io.copies,
                     W |-> a.W, s |-> a.s]

LoadWake ==
  LET r == LoadWakeResult(simpar)
  IN  /\ results' = IF r.err = "none"
                      THEN [results EXCEPT !.W = r.W, !.s = r.s]
                      ELSE results
      /\ reads' = r.reads
      /\ copies' = r.copies
      /\ err' = r.err
      /\ lastOp' = "load_wake"
      /\ UNCHANGED <<ringpar, simpar, wakefile>>

\* --------------------------------------------------------- calc_impedance
\* numpy.fft.fftfreq(n): the bin numbers in natural order, zero first
FftFreqBins(n) ==
  [j \in 1..n |-> IF j - 1 <= (n - 1) \div 2 THEN j - 1 ELSE j - 1 - n]

Roll_Backwards(a, shift) ==
  [i \in 1..Len(a) |-> a[((i - 1 + shift) % Len(a)) + 1]]

\* numpy.roll(a, shift): element i moves to i + shift, wrapping round
Roll(a, shift) ==
  [i \in 1..Len(a) |-> a[((i - 1 - shift) % Len(a)) + 1]]

TwoPi == Rat(TwoPiNum, TwoPiDen)
RatInv(a) == Rat(a.d, a.n)

\* the frequency of bin k: k / (nw * dt), dt = (s[-1] - s[0]) / (ns - 1) / c
FreqOf(k, nw, ns, span) == Rat(k * (ns - 1) * c, nw * span)

InCutoff_Frequency(f, cutoff, sigs) ==
  RatLeq(RatAbs(f), Rat(cutoff * c, sigs))

\* abs(w) <= wmax, with w = 2 pi f and wmax = cutoff / (sigs / c)
InCutoff(f, cutoff, sigs) ==
  RatLeq(RatAbs(RatMul(TwoPi, f)), Rat(cutoff * c, sigs))

InZoN_KeepsDC(f) ==
  RatLess(RatMul(TwoPi, RatAbs(f)), Rat(ZoNLimit, 1))

\* 2 pi abs(f) < 20e9 and f != 0 (lines 288-289)
InZoN(f) ==
  /\ RatLess(RatMul(TwoPi, RatAbs(f)), Rat(ZoNLimit, 1))
  /\ f.n # 0

ZPart_NoConjugate(part, sign, k) == [part |-> part, sign |-> 1, bin |-> k]

\* one value of the deconvolved transform Z, named by its bin
ZPart(part, sign, k) == [part |-> part, sign |-> sign, bin |-> k]

CalcImpedanceResult(rp, sp, res) ==
  LET m == sp.m
      sigs == sp.bunlen
      wake == res.W
      saxis == res.s
      f0 == RatMul(rp.omega0, RatInv(TwoPi))
      ns == Len(saxis)
      nw == Len(wake)
      span == saxis[ns] - saxis[1]
      finite == ns > 1 /\ span # 0      \* else dt is nan or 0 and every bin nan or inf
      bins == Roll(FftFreqBins(nw), nw \div 2)
      freq == [i \in 1..nw |-> FreqOf(bins[i], nw, ns, span)]
      indcs == [i \in 1..nw |-> finite /\ InCutoff(freq[i], sp.cutoff, sigs)]
      kept == Masked(bins, indcs)
      fkept == Masked(freq, indcs)
      indcs2 == [i \in 1..Len(fkept) |-> InZoN(fkept[i])]
      ImZlong == [i \in 1..Len(kept) |-> ZPart("im", -1, kept[i])]
      naxis == [i \in 1..Len(fkept) |-> RatMul(fkept[i], RatInv(f0))]
      naxis2 == Masked(naxis, indcs2)
      ImZ2 == Masked(ImZlong, indcs2)
  IN  IF ns = 0 THEN [err |-> "IndexError", res |-> res]            \* saxis[-1]
      ELSE IF nw = 0 THEN [err |-> "ValueError", res |-> res]       \* fft of no points
      ELSE IF sigs = 0 THEN [err |-> "ZeroDivisionError", res |-> res]  \* cutoff/sigt
      ELSE IF m = 0
        THEN [err |-> "none",
              res |-> [res EXCEPT
                         !.freq = fkept,
                         !.ReZlong = [i \in 1..Len(kept) |-> ZPart("re", 1, kept[i])],
                         !.ImZlong = ImZlong,
                         !.naxis = naxis2,
                         !.ImZoN = [i \in 1..Len(ImZ2) |->
                                      [num |-> ImZ2[i], den |-> naxis2[i]]]]]
      ELSE IF m > 0
        THEN [err |-> "none",
              res |-> [res EXCEPT
                         !.freq = fkept,
                         !.ReZt = [i \in 1..Len(kept) |-> ZPart("im", 1, kept[i])],
                         !.ImZt = [i \in 1..Len(kept) |-> ZPart("re", 1, kept[i])]]]
      ELSE [err |-> "none", res |-> res]

CalcImpedance ==
  LET r == CalcImpedanceResult(ringpar, simpar, results)
  IN  /\ results' = r.res
      /\ err' = r.err
      /\ lastOp' = "calc_impedance"
      /\ UNCHANGED <<ringpar, simpar, wakefile, reads, copies>>

\* ------------------------------------- calc_loss_factor, calc_kick_factor
\* numpy broadcasting of two one-dimensional arrays of lengths a and b
Compat(a, b) == a = b \/ a = 1 \/ b = 1
BLen(a, b) == IF a = 1 THEN b ELSE a

Dec(n) == IF n > 0 THEN n - 1 ELSE 0

\* numpy.trapz(y * rho, x = x): y of length ny, rho and x of length nx.
\* The product and the sum d * (y[1:] + y[:-1]) must broadcast.
TrapzOk(ny, nx) ==
  /\ Compat(ny, nx)
  /\ Compat(Dec(nx), Dec(BLen(ny, nx)))

\* the value of the integral, named by the array integrated and the bunch
\* length of the Gaussian it is weighted with
Trapz(of, sigma) == [of |-> of, sigma |-> sigma]

\* numpy.linspace(start, stop, num = NumScan): start + i * step with
\* step = (stop - start) / (NumScan - 1), and the last point set to stop.
\* The points are held in units of 1 / ScanUnit of the length unit, in which
\* every one of them is an integer.
ScanUnit == NumScan - 1
Linspace(start, stop) ==
  [i \in 1..NumScan |->
     IF i = NumScan THEN stop * ScanUnit
     ELSE start * ScanUnit + (i - 1) * (stop - start)]

\* the six operating points (lines 328-329): sigma in mm, current in mA
sigvec == << Rat(265, 100), Rat(53, 10), Rat(265, 100), Rat(4, 1), Rat(10, 1), Rat(10, 1) >>
Ivec == << 500, 500, 10, 110, 110, 500 >>

CalcLossFactorResult(rp, sp, res) ==
  LET sigs == sp.bunlen
      nw == Len(res.W)
      ns == Len(res.s)
      nf == Len(res.freq)
      nz == Len(res.ReZlong)
      sigi == Linspace(sp.bunlen, rp.sigmamax)
      kZi == [i \in 1..NumScan |-> Trapz("ReZlong", sigi[i])]
      kZvec == [i \in 1..Len(sigvec) |-> Trapz("ReZlong", sigvec[i])]
      Plossvec == [i \in 1..Len(sigvec) |-> [k |-> kZvec[i], I |-> Ivec[i], h |-> rp.h]]
      kW == Trapz("W", Rat(sigs, 1))
      mid == [res EXCEPT !.klossZ = kZi, !.sigmak = sigi, !.Plossvec = Plossvec]
  IN  IF ~ TrapzOk(nz, nf) THEN [err |-> "ValueError", res |-> res]      \* line 325
      ELSE IF ~ TrapzOk(nw, ns) THEN [err |-> "ValueError", res |-> mid] \* line 344
      ELSE [err |-> "none",
            res |-> [mid EXCEPT !.klossW = kW,
                                !.Ploss = [k |-> kW, I |-> rp.Iavg, h |-> rp.h]]]

CalcLossFactor ==
  LET r == CalcLossFactorResult(ringpar, simpar, results)
  IN  /\ results' = r.res
      /\ err' = r.err
      /\ lastOp' = "calc_loss_factor"
      /\ UNCHANGED <<ringpar, simpar, wakefile, reads, copies>>

StoreKick_OverwritesW(res, kickZi, sigi, kickW) ==
  [res EXCEPT !.kickZ = kickZi, !.sigmak = sigi, !.W = <<kickW>>]

\* the three assignments that end calc_kick_factor (lines 396-398)
StoreKick(res, kickZi, sigi, kickW) ==
  [res EXCEPT !.kickZ = kickZi, !.sigmak = sigi, !.kickW = kickW]

CalcKickFactorResult(rp, sp, res) ==
  LET sigs == sp.bunlen
      nw == Len(res.W)
      ns == Len(res.s)
      nf == Len(res.freq)
      nz == Len(res.ImZt)
      sigi == Linspace(sp.bunlen, rp.sigmamax)
      kickZi == [i \in 1..NumScan |-> Trapz("ImZt", sigi[i])]
      kickW == Trapz("W", Rat(sigs, 1))
  IN  IF ~ TrapzOk(nz, nf) THEN [err |-> "ValueError", res |-> res]      \* line 383
      ELSE IF ~ TrapzOk(nw, ns) THEN [err |-> "ValueError", res |-> res] \* line 393
      ELSE [err |-> "none", res |-> StoreKick(res, kickZi, sigi, kickW)]

CalcKickFactor ==
  LET r == CalcKickFactorResult(ringpar, simpar, results)
  IN  /\ results' = r.res
      /\ err' = r.err
      /\ lastOp' = "calc_kick_factor"
      /\ UNCHANGED <<ringpar, simpar, wakefile, reads, copies>>

Next == LoadWake \/ CalcImpedance \/ CalcLossFactor \/ CalcKickFactor

Spec == Init /\ [][Next]_vars

\* ================================================================ claims
Loaded == lastOp = "load_wake" /\ err = "none"
Transformed == lastOp = "calc_impedance" /\ err = "none"
Scanned == lastOp \in {"calc_loss_factor", "calc_kick_factor"} /\ err = "none"

\* C1: after a call of calc_impedance that returns, every frequency f kept in
\* results.freq satisfies |2 pi f| <= cutoff / sigma_t, sigma_t = bunlen / c.
C1_CutoffInvariant ==
  Transformed =>
    \A i \in 1..Len(results.freq) :
       LET f == results.freq[i]
       IN  TwoPiNum * Abs(f.n) * simpar.bunlen <= TwoPiDen * simpar.cutoff * c * f.d

\* C1 witness: a transform that kept a non-zero frequency and dropped a bin
C1_Witness ==
  /\ Transformed
  /\ Len(results.freq) < Len(results.W)
  /\ \E i \in 1..Len(results.freq) : results.freq[i].n # 0

\* C2: load_wake with an unsupported source tag, or ECHO with m > 0 and no
\* symmetry flag, fails with ConfigurationError before any file is read or
\* copied, and results.W and results.s keep their values.
Unsupported(sp) ==
  \/ sp.datasource \notin {"ACE3P", "GdfidL", "CST", "ECHO"}
  \/ sp.datasource = "ECHO" /\ sp.m > 0 /\ sp.sym = 0

C2_ConfigurationErrorAtLoad ==
  [][ (lastOp' = "load_wake" /\ Unsupported(simpar)) =>
        /\ err' = "ConfigurationError"
        /\ reads' = <<>> /\ copies' = <<>>
        /\ results'.W = results.W /\ results'.s = results.s ]_vars

\* C3: calc_impedance, calc_loss_factor and calc_kick_factor raise
\* DataConsistencyError and store nothing when their input arrays are empty
\* or of different lengths.
BadPair(a, b) == Len(a) = 0 \/ Len(b) = 0 \/ Len(a) # Len(b)

C3_DataConsistencyError ==
  [][ ( \/ lastOp' = "calc_impedance" /\ BadPair(results.W, results.s)
        \/ lastOp' = "calc_loss_factor"
             /\ (BadPair(results.W, results.s) \/ BadPair(results.freq, results.ReZlong))
        \/ lastOp' = "calc_kick_factor"
             /\ (BadPair(results.W, results.s) \/ BadPair(results.freq, results.ImZt)) )
      => (err' = "DataConsistencyError" /\ results' = results) ]_vars

\* C4: calc_loss_factor and calc_kick_factor called with sigmamax <= bunlen
\* fail with ConfigurationError and leave every result field unchanged.
C4_DegenerateScanRejected ==
  [][ (lastOp' \in {"calc_loss_factor", "calc_kick_factor"}
         /\ ringpar.sigmamax <= simpar.bunlen)
      => (err' = "ConfigurationError" /\ results' = results) ]_vars

\* C5: for ACE3P with a readable wakefield.out, load_wake returns normally
\* with results.s the position column shifted by -5 sigma (sigma the bunch
\* length of the parameter records) and results.W of the same length.
C5_ACE3PShift ==
  LET path == Join(simpar.wakepath, <<"wakefield.out">>)
      pos == Col(FileRows(path), 1)
  IN  (lastOp = "load_wake" /\ simpar.datasource = "ACE3P"
         /\ Exists(path) /\ wakefile.nrows >= 2)
      => /\ err = "none"
         /\ Len(results.s) = Len(pos)
         /\ \A i \in 1..Len(pos) : results.s[i] = pos[i] - 5 * simpar.bunlen
         /\ Len(results.W) = Len(results.s)

\* C6 as claimed: for CST, s is the file position / 1000 and the wake column
\* is negated exactly when m > 0 (kept as it is for m = 0).
C6_CSTNegatesOnlyTransverse ==
  LET rows == FileRows(Join(simpar.wakepath, <<"wake.txt">>))
  IN  (Loaded /\ simpar.datasource = "CST") =>
        /\ Len(results.s) = Len(rows) /\ Len(results.W) = Len(rows)
        /\ \A i \in 1..Len(rows) :
             /\ results.s[i] * 1000 = rows[i][1]
             /\ results.W[i] = (IF simpar.m > 0 THEN -rows[i][2] ELSE rows[i][2])

\* C6 amended: for CST, s is the file position / 1000 and the wake column is
\* negated in every mode m >= 0: for m = 0 by the rule shared by the sources
\* other than GdfidL, for m > 0 by the CST rule.
C6_CSTNegatesEveryMode ==
  LET rows == FileRows(Join(simpar.wakepath, <<"wake.txt">>))
  IN  (Loaded /\ simpar.datasource = "CST") =>
        /\ Len(results.s) = Len(rows) /\ Len(results.W) = Len(rows)
        /\ \A i \in 1..Len(rows) :
             /\ results.s[i] * 1000 = rows[i][1]
             /\ results.W[i] = -rows[i][2]

\* C6 witness: a longitudinal CST wake loaded with its sign changed
C6_Witness ==
  /\ Loaded /\ simpar.datasource = "CST" /\ simpar.m = 0
  /\ Len(results.W) >= 2
  /\ results.W[1] = -WakeVal(1) /\ results.W[1] # WakeVal(1)
  /\ results.s[2] * 1000 = wakefile.start + FileStep

\* C7: for GdfidL in mode 1 with every required file readable, load_wake
\* returns normally with results.W = A / shift, A the combination of the probe
\* files and shift the header coordinate fx (axis x) or fy (axis y).
C7_GdfidLDipole ==
  LET pn == PathNames(simpar)
      need == {pn.wakepath1, pn.wakepath2, pn.shiftpath}
                \cup (IF simpar.sym = 0 THEN {pn.wakepath3, pn.wakepath4} ELSE {})
      A == Wabs(simpar)
      shift == IF simpar.whichaxis = "x" THEN HeaderCoord[1] ELSE HeaderCoord[2]
  IN  (lastOp = "load_wake" /\ simpar.datasource = "GdfidL" /\ simpar.m = 1
         /\ wakefile.nrows >= 2 /\ \A p \in need : Exists(p))
      => /\ err = "none"
         /\ Len(results.W) = Len(A)
         /\ \A i \in 1..Len(A) : results.W[i] * shift = A[i]

\* naxis and ImZoN hold, in order, one entry for each retained frequency
\* whose index is in the set keep; no entry of naxis is 0
ZoNHolds(keep) ==
  LET all == [i \in 1..Len(results.freq) |-> i]
      idx == Masked(all, [i \in 1..Len(all) |-> i \in keep])
      f0 == RatMul(ringpar.omega0, Rat(TwoPiDen, TwoPiNum))
  IN  /\ Len(results.naxis) = Len(idx)
      /\ Len(results.ImZoN) = Len(idx)
      /\ \A j \in 1..Len(idx) :
           /\ results.naxis[j].n * f0.n * results.freq[idx[j]].d
                = results.freq[idx[j]].n * f0.d * results.naxis[j].d
           /\ results.naxis[j].n # 0
           /\ results.ImZoN[j].num = results.ImZlong[idx[j]]
           /\ results.ImZoN[j].den = results.naxis[j]

\* C8 as claimed: after calc_impedance in mode 0, naxis and ImZoN hold one
\* entry for exactly the retained f with f # 0 and |f| < 20 GHz, in the order
\* of results.freq, and naxis never contains 0.
BelowLimitHz(f) == f.n # 0 /\ Abs(f.n) < ZoNLimit * f.d

C8_ZoNBelow20GHz ==
  (Transformed /\ simpar.m = 0) =>
    ZoNHolds({i \in 1..Len(results.freq) : BelowLimitHz(results.freq[i])})

\* C8 amended: after calc_impedance in mode 0, naxis and ImZoN hold one entry
\* for exactly the retained f with f # 0 and 2 pi |f| < 20e9 (an angular
\* frequency below 20e9 rad/s, |f| below about 3.18 GHz), in the order of
\* results.freq, and naxis never contains 0.
BelowLimitRad(f) == f.n # 0 /\ TwoPiNum * Abs(f.n) < ZoNLimit * TwoPiDen * f.d

C8_ZoNBelow20Grad ==
  (Transformed /\ simpar.m = 0) =>
    ZoNHolds({i \in 1..Len(results.freq) : BelowLimitRad(results.freq[i])})

\* C8 witness: a mode 0 transform whose Z/n range holds some of the retained
\* non-zero frequencies and leaves out another that lies below 20 GHz
C8_Witness ==
  /\ Transformed /\ simpar.m = 0
  /\ Len(results.naxis) >= 1
  /\ \E i \in 1..Len(results.freq) :
       BelowLimitHz(results.freq[i]) /\ ~ BelowLimitRad(results.freq[i])

\* C9: whenever calc_loss_factor or calc_kick_factor returns, sigmak has 100
\* strictly increasing entries from simpar.bunlen to ringpar.sigmamax and the
\* stored factor array has 100 entries, entry i computed from sigmak[i].
C9_ScanArray ==
  LET factor == IF lastOp = "calc_loss_factor" THEN results.klossZ ELSE results.kickZ
  IN  Scanned =>
        /\ Len(results.sigmak) = 100
        /\ \A i \in 1..(Len(results.sigmak) - 1) : results.sigmak[i] < results.sigmak[i+1]
        /\ results.sigmak[1] = simpar.bunlen * ScanUnit
        /\ results.sigmak[Len(results.sigmak)] = ringpar.sigmamax * ScanUnit
        /\ Len(factor) = 100
        /\ \A i \in 1..Len(factor) : factor[i].sigma = results.sigmak[i]

\* C10: during load_wake every file read is copied into simpar.targetdir if
\* and only if simpar.wakepath differs from simpar.targetdir (a target that is
\* a string prefix of the wake directory included).
C10_CopyIffDirectoriesDiffer ==
  lastOp = "load_wake" =>
    IF simpar.wakepath # simpar.targetdir
      THEN \A i \in 1..Len(reads) : Member(reads[i], copies)
      ELSE copies = <<>>

\* C11: calc_impedance, calc_loss_factor and calc_kick_factor, in any order
\* and number, leave results.W and results.s element for element as load_wake
\* stored them, and neither load_wake nor any of the three stages writes a
\* field of ringpar or of simpar.
Stages == {"calc_impedance", "calc_loss_factor", "calc_kick_factor"}

C11_StagesKeepWakeAndParameters ==
  [][ /\ lastOp' \in Stages =>
           /\ Len(results'.W) = Len(results.W)
           /\ Len(results'.s) = Len(results.s)
           /\ \A i \in 1..Len(results.W) : results'.W[i] = results.W[i]
           /\ \A i \in 1..Len(results.s) : results'.s[i] = results.s[i]
      /\ lastOp' \in Stages \cup {"load_wake"} =>
           (ringpar' = ringpar /\ simpar' = simpar) ]_vars

\* C11 witness: a loaded wake that has been through the transform and both
\* scans, the kick scan last, and is still the wake the loader returns
C11_Witness ==
  /\ lastOp = "calc_kick_factor" /\ err = "none"
  /\ results.freq # <<>> /\ results.klossZ # <<>> /\ results.kickZ # <<>>
  /\ Len(results.W) >= 2
  /\ results.W = LoadWakeResult(simpar).W
  /\ results.s = LoadWakeResult(simpar).s

\* the transform arrays calc_impedance stores in the mode of the run
ReZ == IF simpar.m = 0 THEN results.ReZlong ELSE results.ReZt
ImZ == IF simpar.m = 0 THEN results.ImZlong ELSE results.ImZt

\* results.freq is strictly ascending
FreqAscending ==
  \A i \in 1..(Len(results.freq) - 1) :
     RatLess(results.freq[i], results.freq[i + 1])

\* the reordering of the N = Len(results.W) bins, before the cutoff, is
\* ascending with the zero-frequency bin at index floor(N / 2), counted from 0
ZeroCentred ==
  LET N == Len(results.W)
      bins == Roll(FftFreqBins(N), N \div 2)
  IN  /\ \A i \in 1..(N - 1) : bins[i] < bins[i + 1]
      /\ bins[(N \div 2) + 1] = 0

\* every stored transform value lies at the index of its own frequency
PairedWithFrequency ==
  LET N == Len(results.W)
      ns == Len(results.s)
      span == results.s[ns] - results.s[1]
  IN  /\ Len(ReZ) = Len(results.freq) /\ Len(ImZ) = Len(results.freq)
      /\ \A i \in 1..Len(results.freq) :
           /\ ReZ[i].bin = ImZ[i].bin
           /\ results.freq[i] = FreqOf(ReZ[i].bin, N, ns, span)

Opposite(f) == [n |-> -f.n, d |-> f.d]
HasFreq(f) == \E j \in 1..Len(results.freq) : results.freq[j] = f

\* index i of results.freq holds bin -N/2 of an even N
LowestBinOfEven(i) ==
  LET N == Len(results.W)
  IN  N % 2 = 0 /\ ReZ[i].bin = -(N \div 2)

\* C12 as claimed: for every wake length N, even or odd, and every cutoff, the
\* stored frequencies are zero-centred (strictly ascending, zero bin of the
\* untruncated array at index floor(N/2)) and symmetric about 0 (f is stored
\* iff -f is), each transform value paired with its own frequency.
C12_SymmetricForEveryN ==
  Transformed =>
    /\ FreqAscending /\ ZeroCentred /\ PairedWithFrequency
    /\ \A i \in 1..Len(results.freq) : HasFreq(Opposite(results.freq[i]))

\* C12 amended: for every wake length N and every cutoff the stored
\* frequencies are zero-centred and each transform value is paired with its
\* own frequency; they are symmetric about 0 except for bin -N/2 of an even N:
\* every other stored f has -f stored, and the frequency of bin -N/2, when
\* the cutoff retains it, has no positive counterpart.
C12_SymmetricButLowestBinOfEven ==
  Transformed =>
    /\ FreqAscending /\ ZeroCentred /\ PairedWithFrequency
    /\ \A i \in 1..Len(results.freq) :
         HasFreq(Opposite(results.freq[i])) <=> ~ LowestBinOfEven(i)

\* C12 witness: an even number of points whose bin -N/2 is retained next to
\* a symmetric pair of non-zero frequencies
C12_Witness ==
  /\ Transformed /\ Len(results.W) % 2 = 0
  /\ Len(results.freq) >= 4
  /\ LowestBinOfEven(1)
  /\ \E i \in 1..Len(results.freq) :
       results.freq[i].n > 0 /\ HasFreq(Opposite(results.freq[i]))

\* the bin of the transform whose frequency is f, for a wake of nw points on
\* ns positions spanning span
BinOf(f, nw, ns, span) ==
  CHOOSE k \in (-nw)..nw : FreqOf(k, nw, ns, span) = f

\* the array a holds, for every retained index i, the part (re or im) with
\* the sign of the raw transform value Z_raw[i], and is as long as freq
HoldsPart(a, part, sign, res) ==
  LET nw == Len(res.W)
      ns == Len(res.s)
      span == res.s[ns] - res.s[1]
  IN  /\ Len(a) = Len(res.freq)
      /\ \A i \in 1..Len(res.freq) :
           a[i] = [part |-> part, sign |-> sign,
                   bin |-> BinOf(res.freq[i], nw, ns, span)]

\* C13: a call of calc_impedance that returns stores, for every retained
\* index i, in mode 0 ReZlong[i] = Re(Z_raw[i]) and ImZlong[i] = -Im(Z_raw[i]),
\* in mode > 0 ReZt[i] = Im(Z_raw[i]) and ImZt[i] = Re(Z_raw[i]); both arrays
\* are as long as results.freq and the arrays of the other mode are unchanged.
C13_ComponentMapping ==
  [][ (lastOp' = "calc_impedance" /\ err' = "none") =>
        IF simpar.m = 0
          THEN /\ HoldsPart(results'.ReZlong, "re", 1, results')
               /\ HoldsPart(results'.ImZlong, "im", -1, results')
               /\ results'.ReZt = results.ReZt
               /\ results'.ImZt = results.ImZt
          ELSE /\ HoldsPart(results'.ReZt, "im", 1, results')
               /\ HoldsPart(results'.ImZt, "re", 1, results')
               /\ results'.ReZlong = results.ReZlong
               /\ results'.ImZlong = results.ImZlong ]_vars

\* C13 witness: a mode 0 transform that stored the conjugate of at least two
\* raw values and left the transverse arrays as they were
C13_Witness ==
  /\ Transformed /\ simpar.m = 0
  /\ Len(results.freq) >= 2
  /\ HoldsPart(results.ImZlong, "im", -1, results)
  /\ results.ReZlong[2].part = "re" /\ results.ImZlong[2].sign = -1
  /\ results.ReZt = <<>> /\ results.ImZt = <<>>

\* C14: for GdfidL in mode 0 with a readable Results-Wq_AT_XY.0001, load_wake
\* reads that file and returns normally with results.s its first column and
\* results.W taken from its second column, both of the file's row count.
C14_GdfidLLongitudinal ==
  LET path == Join(simpar.wakepath, <<"Results-Wq_AT_XY.0001">>)
      rows == FileRows(path)
  IN  (lastOp = "load_wake" /\ simpar.datasource = "GdfidL" /\ simpar.m = 0
         /\ Exists(path) /\ wakefile.nrows >= 2)
      => /\ err = "none"
         /\ Member(path, reads)
         /\ Len(results.s) = Len(rows) /\ Len(results.W) = Len(rows)
         /\ \A i \in 1..Len(rows) :
              /\ results.s[i] = rows[i][1]
              /\ Abs(results.W[i]) = Abs(rows[i][2])

====
